---- MODULE Spec2Model ----
(***************************************************************************)
(* Model of scripts/generate-catalog.js: the catalog generator walks the   *)
(* tools/ tree below the working directory, turns every metadata.json into *)
(* a tool record (or skips it), groups the records by software type, sorts *)
(* every group by name and writes catalog.json.                            *)
(*                                                                         *)
(* A path is a sequence of segments.  The file system is an input of the   *)
(* run: it is chosen in Init and never changes while main runs.            *)
(***************************************************************************)
EXTENDS Integers, Sequences, FiniteSets, TLC

\* ------------------------------------------------------------------ bounds

\* At most this many tool directories (directories holding a metadata.json)
\* exist below the tools root.
MaxTools == 2

\* ------------------------------------------------------- JavaScript values

Undefined == [t |-> "undefined", v |-> ""]
Str(s) == [t |-> "string", v |-> s]
Num(s) == [t |-> "number", v |-> s]

\* Truthiness of a value taken from JSON: undefined and "" are falsy; the
\* numbers used here are non-zero.
Truthy(x) == x.t # "undefined" /\ ~(x.t = "string" /\ x.v = "")

\* a || b
OrElse(a, b) == IF Truthy(a) THEN a ELSE b

\* ---------------------------------------------------------- the input tree

\* Where and how the generator is run: the working directory, whether
\* `git log` answers with a date, whether an earlier catalog.json exists.
\* The working directories: an ordinary one, one whose own path holds a
\* segment named "tools" followed by the name of a software type, and one
\* where that next segment is the name of a property every object inherits.
Environments ==
    { [cwd |-> <<"home", "repo">>, gitWorks |-> TRUE, prior |-> TRUE],
      [cwd |-> <<"home", "repo">>, gitWorks |-> FALSE, prior |-> FALSE],
      [cwd |-> <<"srv", "tools", "blender">>, gitWorks |-> TRUE, prior |-> FALSE],
      [cwd |-> <<"srv", "tools", "toString">>, gitWorks |-> FALSE, prior |-> TRUE] }

\* Tool directories, relative to the tools root.
ToolDirs ==
    { <<"blender", "a">>,
      <<"blender", "nested", "a">>,
      <<"sketchup", "b">>,
      <<"unknownsoft", "c">> }

\* Directories directly below the tools root that may exist without holding
\* any tool.
ExtraTypeSets == { {}, {"blender", "rhino"} }

\* What a metadata.json may hold.
MetadataContents ==
    { [json |-> "malformed", name |-> Undefined, description |-> Undefined, id |-> Undefined],
      [json |-> "null", name |-> Undefined, description |-> Undefined, id |-> Undefined],
      [json |-> "object", name |-> Undefined, description |-> Undefined, id |-> Undefined],
      [json |-> "object", name |-> Str("B"), description |-> Str("d"), id |-> Str("x1")],
      [json |-> "object", name |-> Num("42"), description |-> Undefined, id |-> Undefined] }

\* What a tool directory may hold beside its metadata.json: entry name to
\* entry type.
Md == "metadata.json" :> "file"

DirListings ==
    { Md @@ ("tool.py" :> "file"),
      Md @@ ("tool.rb" :> "file") @@ ("helper.txt" :> "file"),
      Md @@ ("tool.py" :> "dir"),
      Md @@ ("tool.py" :> "file") @@ ("tool.rb" :> "file") @@ ("lib" :> "dir") }

ToolDirContents == [metadata : MetadataContents, entries : DirListings]

\* Every tree of at most MaxTools tool directories.
ToolTrees ==
    UNION { [D -> ToolDirContents] : D \in { S \in SUBSET ToolDirs : Cardinality(S) <= MaxTools } }

VARIABLES
    cwd,            \* process.cwd()
    rootExists,     \* whether <cwd>/tools exists
    typeDirs,       \* names of the directories directly below the tools root
    tree,           \* tool directory (relative path) -> its contents
    gitWorks,       \* whether `git log` succeeds with a date
    priorFile,      \* catalog.json as it was before the run
    pc,             \* where main is
    metadataFiles,  \* main's metadataFiles
    softwareTypes,  \* main's softwareTypes
    catalog,        \* main's catalog.tools
    next,           \* index of the next element of metadataFiles
    outcomes,       \* per processed descriptor: what became of it
    phases,         \* the phases main has gone through, in order
    catalogFile,    \* catalog.json on disk
    writes,         \* number of writeFileSync calls so far
    exitCode        \* the process's exit status once it is set

vars == << cwd, rootExists, typeDirs, tree, gitWorks, priorFile, pc, metadataFiles,
           softwareTypes, catalog, next, outcomes, phases, catalogFile, writes,
           exitCode >>

inputs == << cwd, rootExists, typeDirs, tree, gitWorks, priorFile >>

\* ------------------------------------------------------------------- paths

\* path.join(dir, entry)
Join(dir, entry) == Append(dir, entry)

\* path.dirname, path.basename
Dirname(p) == SubSeq(p, 1, Len(p) - 1)
Basename(p) == p[Len(p)]

\* path.join(process.cwd(), 'tools')
ToolsDir == Join(cwd, "tools")

\* The tool directory an absolute path below the tools root names.
Rel(p) == SubSeq(p, Len(ToolsDir) + 1, Len(p))

\* Array.prototype.indexOf, 1-based, 0 for "not found".
IndexOf(parts, x) ==
    IF \E i \in 1..Len(parts) : parts[i] = x
    THEN CHOOSE i \in 1..Len(parts) :
            parts[i] = x /\ \A j \in 1..(i - 1) : parts[j] # x
    ELSE 0

\* ------------------------------------------------------ the pure functions

SOFTWARE_CONFIG ==
    [blender |-> "py", sketchup |-> "rb", rhino |-> "py", revit |-> "py"]

\* The segment after the first "tools" segment of the path; a throw when
\* there is no such segment or it is the last one.
extractSoftwareType(metadataPath) ==
    LET toolsIndex == IndexOf(metadataPath, "tools")
    IN  IF toolsIndex = 0 \/ toolsIndex + 1 > Len(metadataPath)
        THEN [threw |-> TRUE, value |-> ""]
        ELSE [threw |-> FALSE, value |-> metadataPath[toolsIndex + 1]]

extractToolName(metadataPath) == Basename(Dirname(metadataPath))

\* `tool.${extension}`
ToolFile == [py |-> "tool.py", rb |-> "tool.rb"]

getMainFileName(softwareType) ==
    IF softwareType \in DOMAIN SOFTWARE_CONFIG
    THEN ToolFile[SOFTWARE_CONFIG[softwareType]]
    ELSE "tool.py"

\* --------------------------------------------------------- the file system

\* fs.readdirSync of a tool directory: its entry names with their types.
Entries(dir) == tree[Rel(dir)].entries

\* The order fs.readdirSync lists the entries of a tool directory in.
ListingOrder == << "helper.txt", "lib", "metadata.json", "tool.py", "tool.rb" >>

\* The elements of sequence s that are in the set keep, in order.
RECURSIVE Filter(_, _)
Filter(s, keep) ==
    IF s = << >> THEN << >>
    ELSE IF s[1] \in keep THEN << s[1] >> \o Filter(Tail(s), keep)
         ELSE Filter(Tail(s), keep)

\* fs.existsSync(path.join(toolDir, mainFileName)): true of an entry of any
\* type.
verifyMainToolFile(metadataPath, softwareType) ==
    getMainFileName(softwareType) \in DOMAIN Entries(Dirname(metadataPath))

\* findDependencies without the isFile() test: subdirectories are listed too.
findDependenciesWithoutStat(metadataPath, softwareType) ==
    LET entries == Entries(Dirname(metadataPath))
        excludedFiles == { "metadata.json", getMainFileName(softwareType) }
    IN  Filter(ListingOrder, { e \in DOMAIN entries : e \notin excludedFiles })

findDependencies(metadataPath, softwareType) ==
    LET entries == Entries(Dirname(metadataPath))
        excludedFiles == { "metadata.json", getMainFileName(softwareType) }
    IN  Filter(ListingOrder,
               { e \in DOMAIN entries : e \notin excludedFiles /\ entries[e] = "file" })

\* The author date git reports, or the current time when git reports
\* nothing or fails; never a throw.
getLastCommitDate(dirPath) ==
    IF gitWorks THEN "2024-05-01T10:00:00+02:00" ELSE "now"

\* The immediate subdirectories of the tools root, sorted.  README.md is a
\* regular file of the tools root.
TypeOrder == << "blender", "rhino", "sketchup", "unknownsoft" >>

RootEntries == [e \in typeDirs \cup {"README.md"} |-> IF e \in typeDirs THEN "dir" ELSE "file"]

discoverSoftwareTypes ==
    Filter(TypeOrder, { e \in DOMAIN RootEntries : RootEntries[e] = "dir" })

\* The order a depth-first traversal that lists every directory by name
\* meets the tool directories in.
TraversalOrder ==
    << <<"blender", "a">>, <<"blender", "nested", "a">>,
       <<"sketchup", "b">>, <<"unknownsoft", "c">> >>

\* traverse(dir) pushes path.join(currentDir, 'metadata.json') for every
\* directory that holds one.
MetadataPathOf(d) == Join(ToolsDir \o d, "metadata.json")

findMetadataFiles ==
    LET found == Filter(TraversalOrder, DOMAIN tree)
    IN  [i \in 1..Len(found) |-> MetadataPathOf(found[i])]

\* ------------------------------------------------------------- processTool

\* The result of processTool: a tool with its software type, or null with
\* the diagnostic that was printed.
Null(diag) == [kind |-> "null", diag |-> diag]

BuildTool(metadata, toolName, dependencies, lastCommitDate) ==
    LET tool == [name |-> OrElse(metadata.name, Str(toolName)),
                 description |-> OrElse(metadata.description, Str("")),
                 folder |-> toolName,
                 updated_at |-> lastCommitDate]
        withDeps == IF Len(dependencies) > 0
                    THEN tool @@ [dependencies |-> dependencies]
                    ELSE tool
    IN  IF Truthy(metadata.id) THEN withDeps @@ [id |-> metadata.id] ELSE withDeps

processTool(metadataPath) ==
    LET metadata == tree[Rel(Dirname(metadataPath))].metadata
        softwareType == extractSoftwareType(metadataPath)
        toolName == extractToolName(metadataPath)
    IN  IF metadata.json = "malformed" THEN Null("failed")
        ELSE IF softwareType.threw THEN Null("failed")
        ELSE IF ~verifyMainToolFile(metadataPath, softwareType.value)
             THEN Null("missing-main")
        ELSE IF metadata.json = "null" THEN Null("failed")
        ELSE [kind |-> "tool",
              tool |-> BuildTool(metadata, toolName,
                                 findDependencies(metadataPath, softwareType.value),
                                 getLastCommitDate(Dirname(metadataPath))),
              softwareType |-> softwareType.value]

\* ---------------------------------------------------------------- the sort

\* Where the locale's collation puts the strings that occur as names:
\* digits before letters, a lowercase letter before its uppercase letter,
\* both before the next letter.
LocaleRank == [ x \in {"42", "a", "b", "B", "c"} |->
                  CASE x = "42" -> 0 [] x = "a" -> 1 [] x = "b" -> 2
                    [] x = "B" -> 3 [] x = "c" -> 4 ]

\* x.localeCompare(y) for a string x; y is converted to a string.
LocaleCompare(x, y) ==
    IF LocaleRank[x.v] < LocaleRank[y.v] THEN -1
    ELSE IF LocaleRank[x.v] > LocaleRank[y.v] THEN 1 ELSE 0

\* Where a comparison by code units (a.name < b.name) puts the same strings:
\* uppercase letters before lowercase ones.
CodeUnitRank == [ x \in {"42", "a", "b", "B", "c"} |->
                    CASE x = "42" -> 0 [] x = "B" -> 1 [] x = "a" -> 2
                      [] x = "b" -> 3 [] x = "c" -> 4 ]

\* The comparator with a code-unit comparison in place of localeCompare.
CompareToolsByCodeUnit(a, b) ==
    IF CodeUnitRank[a.tool.name.v] < CodeUnitRank[b.tool.name.v] THEN -1
    ELSE IF CodeUnitRank[a.tool.name.v] > CodeUnitRank[b.tool.name.v] THEN 1 ELSE 0

\* (a, b) => a.name.localeCompare(b.name)
CompareTools(a, b) == LocaleCompare(a.tool.name, b.tool.name)

\* Array.prototype.sort is stable: e goes behind the elements that do not
\* compare after it.
RECURSIVE Insert(_, _)
Insert(sorted, e) ==
    IF sorted = << >> THEN << e >>
    ELSE IF CompareTools(sorted[Len(sorted)], e) <= 0 THEN Append(sorted, e)
         ELSE Append(Insert(SubSeq(sorted, 1, Len(sorted) - 1), e), sorted[Len(sorted)])

RECURSIVE SortByName(_)
SortByName(tools) ==
    IF tools = << >> THEN << >>
    ELSE Insert(SortByName(SubSeq(tools, 1, Len(tools) - 1)), tools[Len(tools)])

\* What sorting one list can end in.  The comparator throws a TypeError
\* when its first argument's name is not a string (a number has no
\* localeCompare).  A list of fewer than two elements is never compared.
\* Which element of a pair is passed first is up to the engine: a list of
\* two or more whose names are all non-strings throws, a mixed one may.
SortOutcomes(tools) ==
    LET nonStrings == { i \in 1..Len(tools) : tools[i].tool.name.t # "string" }
    IN  IF Len(tools) < 2 \/ nonStrings = {} THEN {"sorted"}
        ELSE IF Cardinality(nonStrings) = Len(tools) THEN {"throw"}
        ELSE {"sorted", "throw"}

\* ------------------------------------------------------------ catalog.json

\* Names every object inherits from Object.prototype: catalog.tools[name]
\* is truthy for them although catalog.tools has no such key of its own.
ObjectPrototypeKeys ==
    { "constructor", "toString", "toLocaleString", "valueOf", "hasOwnProperty",
      "isPrototypeOf", "propertyIsEnumerable", "__proto__" }

NoFile == [exists |-> FALSE, version |-> "", generated_at |-> "", tools |-> << >>]

\* A catalog.json an earlier run left behind.
PriorFile ==
    [exists |-> TRUE, version |-> "1.0.0", generated_at |-> "earlier",
     tools |-> ("revit" :> << [name |-> Str("old"), description |-> Str(""),
                               folder |-> "old", updated_at |-> "earlier"] >>)]

\* JSON.stringify(catalog, null, 2): the lists of tool objects by software
\* type.  The model's lists also remember the metadata.json each tool was
\* built from; the file does not hold that.
Document(tools) ==
    [exists |-> TRUE, version |-> "1.0.0", generated_at |-> "now",
     tools |-> [t \in DOMAIN tools |-> [i \in 1..Len(tools[t]) |-> tools[t][i].tool]]]

\* -------------------------------------------------------------------- main

Init ==
    /\ \E env \in Environments :
         /\ cwd = env.cwd
         /\ gitWorks = env.gitWorks
         /\ priorFile = IF env.prior THEN PriorFile ELSE NoFile
    /\ rootExists \in BOOLEAN
    /\ IF rootExists
       THEN /\ tree \in ToolTrees
            /\ \E extra \in ExtraTypeSets :
                 typeDirs = { d[1] : d \in DOMAIN tree } \cup extra
       ELSE /\ tree \in [{} -> ToolDirContents]
            /\ typeDirs = {}
    /\ pc = "start"
    /\ metadataFiles = << >>
    /\ softwareTypes = << >>
    /\ catalog = << >>
    /\ next = 1
    /\ outcomes = << >>
    /\ phases = << >>
    /\ catalogFile = priorFile
    /\ writes = 0
    /\ exitCode = -1

\* if (!fs.existsSync(toolsDir)) throw new Error('Tools directory not found')
CheckToolsDir ==
    /\ pc = "start"
    /\ pc' = IF rootExists THEN "find" ELSE "fatal"
    /\ UNCHANGED << inputs, metadataFiles, softwareTypes, catalog, next, outcomes,
                    phases, catalogFile, writes, exitCode >>

\* const metadataFiles = findMetadataFiles(toolsDir)
FindMetadataFiles ==
    /\ pc = "find"
    /\ metadataFiles' = findMetadataFiles
    /\ pc' = "discover"
    /\ phases' = Append(phases, "descriptors")
    /\ UNCHANGED << inputs, softwareTypes, catalog, next, outcomes, catalogFile,
                    writes, exitCode >>

\* const softwareTypes = discoverSoftwareTypes(toolsDir)
DiscoverSoftwareTypes ==
    /\ pc = "discover"
    /\ softwareTypes' = discoverSoftwareTypes
    /\ pc' = "init"
    /\ phases' = Append(phases, "categories")
    /\ UNCHANGED << inputs, metadataFiles, catalog, next, outcomes, catalogFile,
                    writes, exitCode >>

\* The catalog started from the lists of the earlier catalog.json instead of
\* empty lists.
InitCatalogFromPriorFile ==
    /\ pc = "init"
    /\ catalog' = [t \in { softwareTypes[i] : i \in 1..Len(softwareTypes) }
                          \cup DOMAIN priorFile.tools |->
                     IF t \in DOMAIN priorFile.tools
                     THEN [i \in 1..Len(priorFile.tools[t]) |->
                             [tool |-> priorFile.tools[t][i], from |-> << >>]]
                     ELSE << >>]
    /\ next' = 1
    /\ pc' = "loop"
    /\ UNCHANGED << inputs, metadataFiles, softwareTypes, outcomes, phases,
                    catalogFile, writes, exitCode >>

\* tools: Object.fromEntries(softwareTypes.map(type => [type, []]))
InitCatalog ==
    /\ pc = "init"
    /\ catalog' = [t \in { softwareTypes[i] : i \in 1..Len(softwareTypes) } |-> << >>]
    /\ next' = 1
    /\ pc' = "loop"
    /\ UNCHANGED << inputs, metadataFiles, softwareTypes, outcomes, phases,
                    catalogFile, writes, exitCode >>

\* The aggregation with a list created for a software type that was not
\* discovered, instead of the warning.
AggregateCreatingKeys(metadataPath, result) ==
    IF result.kind = "null"
    THEN /\ outcomes' = Append(outcomes, result.diag)
         /\ pc' = "loop"
         /\ UNCHANGED catalog
    ELSE /\ catalog' = [t \in DOMAIN catalog \cup {result.softwareType} |->
                          IF t = result.softwareType
                          THEN Append(IF t \in DOMAIN catalog THEN catalog[t] ELSE << >>,
                                      [tool |-> result.tool, from |-> metadataPath])
                          ELSE catalog[t]]
         /\ outcomes' = Append(outcomes, "added")
         /\ pc' = "loop"

\* One iteration of `for (const metadataPath of metadataFiles)`.
\* catalog.tools[softwareType] is the list of a discovered type, or a
\* property inherited from Object.prototype (truthy, and without a push:
\* a TypeError that main's catch turns into a fatal error), or undefined.
Aggregate(metadataPath, result) ==
    IF result.kind = "null"
    THEN /\ outcomes' = Append(outcomes, result.diag)
         /\ pc' = "loop"
         /\ UNCHANGED catalog
    ELSE IF result.softwareType \in DOMAIN catalog
    THEN /\ catalog' = [catalog EXCEPT ![result.softwareType] =
                           Append(@, [tool |-> result.tool, from |-> metadataPath])]
         /\ outcomes' = Append(outcomes, "added")
         /\ pc' = "loop"
    ELSE IF result.softwareType \in ObjectPrototypeKeys
    THEN /\ outcomes' = Append(outcomes, "threw")
         /\ pc' = "fatal"
         /\ UNCHANGED catalog
    ELSE /\ outcomes' = Append(outcomes, "dropped")
         /\ pc' = "loop"
         /\ UNCHANGED catalog

ProcessNext ==
    /\ pc = "loop"
    /\ next <= Len(metadataFiles)
    /\ Aggregate(metadataFiles[next], processTool(metadataFiles[next]))
    /\ next' = next + 1
    /\ phases' = IF phases[Len(phases)] = "process" THEN phases
                 ELSE Append(phases, "process")
    /\ UNCHANGED << inputs, metadataFiles, softwareTypes, catalogFile, writes, exitCode >>

\* Object.values(catalog.tools).forEach(tools => tools.sort(...))
SortCatalog ==
    /\ pc = "loop"
    /\ next > Len(metadataFiles)
    /\ \/ /\ \A t \in DOMAIN catalog : "sorted" \in SortOutcomes(catalog[t])
          /\ catalog' = [t \in DOMAIN catalog |-> SortByName(catalog[t])]
          /\ pc' = "write"
       \/ /\ \E t \in DOMAIN catalog : "throw" \in SortOutcomes(catalog[t])
          /\ pc' = "fatal"
          /\ UNCHANGED catalog
    /\ phases' = Append(phases, "sort")
    /\ UNCHANGED << inputs, metadataFiles, softwareTypes, next, outcomes, catalogFile,
                    writes, exitCode >>

\* fs.writeFileSync(catalogPath, JSON.stringify(catalog, null, 2)), the
\* summary, and the end of main: the process ends with status 0.
WriteCatalog ==
    /\ pc = "write"
    /\ catalogFile' = Document(catalog)
    /\ writes' = writes + 1
    /\ exitCode' = 0
    /\ pc' = "done"
    /\ phases' = Append(phases, "write")
    /\ UNCHANGED << inputs, metadataFiles, softwareTypes, catalog, next, outcomes >>

\* catch (error) { console.error(...); process.exit(1) }
FatalExit ==
    /\ pc = "fatal"
    /\ exitCode' = 1
    /\ pc' = "exited"
    /\ UNCHANGED << inputs, metadataFiles, softwareTypes, catalog, next, outcomes,
                    phases, catalogFile, writes >>

Next ==
    \/ CheckToolsDir
    \/ FindMetadataFiles
    \/ DiscoverSoftwareTypes
    \/ InitCatalog
    \/ ProcessNext
    \/ SortCatalog
    \/ WriteCatalog
    \/ FatalExit

Spec == Init /\ [][Next]_vars

\* ------------------------------------------------------------- the claims

Range(s) == { s[i] : i \in 1..Len(s) }

\* The places of the in-memory catalog: software type and index.
Places == UNION { { << t, i >> : i \in 1..Len(catalog[t]) } : t \in DOMAIN catalog }

Entry(pl) == catalog[pl[1]][pl[2]]

\* The tool directory (relative to the tools root) an entry was built from.
ToolDirOf(e) == Rel(Dirname(e.from))

\* The regular files of a tool directory.
RegularFiles(d) == { n \in DOMAIN tree[d].entries : tree[d].entries[n] = "file" }

IsPrefix(p, s) == Len(p) <= Len(s) /\ SubSeq(s, 1, Len(p)) = p

OrdinaryCwd == IndexOf(cwd, "tools") = 0

TypeOK ==
    pc \in {"start", "find", "discover", "init", "loop", "write", "done", "fatal", "exited"}

\* C1: once the catalog is written, every tool directory whose metadata.json
\* holds an object and whose main file (by the directory's top-level
\* software type) is a regular file has exactly one entry in the whole
\* catalog, that entry is in the list of the top-level directory that
\* contains the tool, and its folder is the directory's name.
C1_EveryValidToolListedUnderItsType ==
    pc = "done" =>
        \A d \in DOMAIN tree :
            (/\ tree[d].metadata.json = "object"
             /\ getMainFileName(d[1]) \in RegularFiles(d))
            => /\ Cardinality({ pl \in Places : Entry(pl).from = MetadataPathOf(d) }) = 1
               /\ d[1] \in DOMAIN catalog
               /\ \E i \in 1..Len(catalog[d[1]]) :
                    /\ catalog[d[1]][i].from = MetadataPathOf(d)
                    /\ catalog[d[1]][i].tool.folder = d[Len(d)]

\* C2: once the catalog is written, every entry of the list of software
\* type t was built from a directory that holds t's main file as a regular
\* file: a directory without it has no record.
C2_NoRecordWithoutMainFile ==
    pc = "done" =>
        \A pl \in Places :
            getMainFileName(pl[1]) \in RegularFiles(ToolDirOf(Entry(pl)))

\* C3: with the tools root present and an ordinary working directory, no
\* content of the tool directories and their metadata.json makes main end
\* in its fatal handler: every failure is a null result of processTool.
C3_NoToolAbortsTheRun ==
    (rootExists /\ OrdinaryCwd) => pc \notin {"fatal", "exited"}

\* C4: from the moment the catalog is initialized, and in the file that is
\* written, the keys of the tools mapping are exactly the names of the
\* immediate subdirectories of the tools root, whatever was folded in.
C4_KeysAreTheTypeDirectories ==
    /\ pc \in {"loop", "write", "done"} => DOMAIN catalog = typeDirs
    /\ pc = "done" => DOMAIN catalogFile.tools = typeDirs

\* A written catalog with a software type that has no tool, after a result
\* of an undiscovered software type was dropped.
C4_Witness ==
    /\ pc = "done"
    /\ "dropped" \in Range(outcomes)
    /\ \E t \in DOMAIN catalogFile.tools : Len(catalogFile.tools[t]) = 0

\* C5 as stated: in the written catalog, of every two adjacent records of a
\* list the first compares strictly before the second by name, and sorting
\* again changes nothing.
C5_StrictlyOrdered ==
    pc = "done" =>
        \A t \in DOMAIN catalogFile.tools :
            /\ \A i \in 1..(Len(catalogFile.tools[t]) - 1) :
                 LocaleCompare(catalogFile.tools[t][i].name,
                               catalogFile.tools[t][i + 1].name) < 0
            /\ SortByName(catalog[t]) = catalog[t]

\* C5 as amended: in the written catalog, of every two adjacent records of
\* a list the first does not compare after the second by name (names that
\* compare equal are allowed), and sorting again changes nothing.
C5_Ordered ==
    pc = "done" =>
        \A t \in DOMAIN catalogFile.tools :
            /\ \A i \in 1..(Len(catalogFile.tools[t]) - 1) :
                 LocaleCompare(catalogFile.tools[t][i].name,
                               catalogFile.tools[t][i + 1].name) <= 0
            /\ SortByName(catalog[t]) = catalog[t]

\* A written catalog with a list the sort has reordered: the tool found
\* second comes first.
C5_Witness ==
    /\ pc = "done"
    /\ \E t \in DOMAIN catalog :
         /\ Len(catalog[t]) = 2
         /\ catalog[t][1].from = metadataFiles[2]
         /\ catalog[t][2].from = metadataFiles[1]

\* C6: in the written catalog, a record of the list of software type t has
\* the dependencies field exactly when its directory holds a regular file
\* other than metadata.json and t's main file, and the field then lists
\* exactly those files: never metadata.json, the main file or a
\* subdirectory.
C6_DependenciesAreTheOtherFiles ==
    pc = "done" =>
        \A pl \in Places :
            LET record == catalogFile.tools[pl[1]][pl[2]]
                others == RegularFiles(ToolDirOf(Entry(pl)))
                             \ { "metadata.json", getMainFileName(pl[1]) }
            IN  /\ ("dependencies" \in DOMAIN record) <=> (others # {})
                /\ ("dependencies" \in DOMAIN record) =>
                      /\ Range(record.dependencies) = others
                      /\ Len(record.dependencies) = Cardinality(others)

\* A written catalog with a record that has dependencies although its
\* directory also holds a subdirectory, and a record without dependencies.
C6_Witness ==
    /\ pc = "done"
    /\ \E pl \in Places :
         /\ "dependencies" \in DOMAIN catalogFile.tools[pl[1]][pl[2]]
         /\ "lib" \in DOMAIN tree[ToolDirOf(Entry(pl))].entries
    /\ \E pl \in Places : "dependencies" \notin DOMAIN catalogFile.tools[pl[1]][pl[2]]

\* C7: with an ordinary working directory, a run without a tools root ends
\* with status 1 and leaves catalog.json as it was, and a run with a tools
\* root ends with status 0 and a written catalog.
C7_ExitStatusFollowsTheRoot ==
    (OrdinaryCwd /\ pc \in {"done", "exited"}) =>
        IF rootExists
        THEN exitCode = 0 /\ writes = 1 /\ catalogFile = Document(catalog)
        ELSE exitCode = 1 /\ writes = 0 /\ catalogFile = priorFile

BuiltInThisRun ==
    \A t \in DOMAIN catalogFile.tools :
        \A i \in 1..Len(catalogFile.tools[t]) :
            \E j \in 1..Len(metadataFiles) :
                /\ processTool(metadataFiles[j]).kind = "tool"
                /\ processTool(metadataFiles[j]).softwareType = t
                /\ processTool(metadataFiles[j]).tool = catalogFile.tools[t][i]

\* What C9 says about the write, whatever the order of the phases: written
\* once, after every descriptor was processed and every list sorted, from
\* this run's records alone, and not at all on a fatal run.
WrittenOnceAtTheEnd ==
    /\ writes <= 1
    /\ writes = 1 <=> pc = "done"
    /\ pc = "done" =>
         /\ next = Len(metadataFiles) + 1
         /\ Len(outcomes) = Len(metadataFiles)
         /\ \A t \in DOMAIN catalog : SortByName(catalog[t]) = catalog[t]
         /\ catalogFile = Document(catalog)
         /\ BuiltInThisRun
    /\ pc # "done" => catalogFile = priorFile

\* C9 as stated: the phases are: categories, descriptors, processing, sort,
\* write (processing is missing when there is no descriptor).
C9_CategoriesThenDescriptors ==
    /\ \/ IsPrefix(phases, << "categories", "descriptors", "process", "sort", "write" >>)
       \/ IsPrefix(phases, << "categories", "descriptors", "sort", "write" >>)
    /\ WrittenOnceAtTheEnd

\* C9 as amended: the phases are: descriptors, categories, processing,
\* sort, write (processing is missing when there is no descriptor).
C9_DescriptorsThenCategories ==
    /\ \/ IsPrefix(phases, << "descriptors", "categories", "process", "sort", "write" >>)
       \/ IsPrefix(phases, << "descriptors", "categories", "sort", "write" >>)
    /\ pc = "done" => phases[Len(phases)] = "write"
    /\ WrittenOnceAtTheEnd

\* A finished run over two descriptors that replaced an earlier catalog.
C9_Witness ==
    /\ pc = "done"
    /\ priorFile.exists
    /\ Len(metadataFiles) = 2
    /\ phases = << "descriptors", "categories", "process", "sort", "write" >>
    /\ \E pl \in Places : TRUE

\* The number of processed descriptors with the given outcome.
Count(outcome) == Cardinality({ i \in 1..Len(outcomes) : outcomes[i] = outcome })

\* C10: in the written catalog, every record of the list of software type
\* t comes from a metadata.json below <tools root>/t whose directory holds
\* t's main file, no metadata.json has two records, and the records, the
\* skipped and the dropped descriptors add up to the descriptors found.
C10_RecordsComeFromTheirTypeDirectory ==
    pc = "done" =>
        /\ \A pl \in Places :
             /\ ToolDirOf(Entry(pl))[1] = pl[1]
             /\ getMainFileName(pl[1]) \in DOMAIN tree[ToolDirOf(Entry(pl))].entries
        /\ \A pl, pm \in Places : Entry(pl).from = Entry(pm).from => pl = pm
        /\ Cardinality(Places) + Count("failed") + Count("missing-main")
              + Count("dropped") = Len(metadataFiles)

====
